---- MODULE Spec2Model ----
(***************************************************************************)
(* FlowPilot-AI backend: the Mermaid synthesizer and the rank assignment   *)
(* of backend/diagram_generator.py, and the validate/fallback controller   *)
(* at the end of run_crew in backend/agents.py.                            *)
(*                                                                         *)
(* A Python str is modelled as a sequence of one-character strings, so     *)
(* that split, replace, strip, splitlines and the f-string concatenations  *)
(* are computed character by character as the code computes them.          *)
(***************************************************************************)
EXTENDS Integers, Sequences, FiniteSets, TLC

VARIABLES
    nodes,           \* the node list: records [id, label, shape, keys]
    edges,           \* the edge list: records [source, target]
    pc,              \* position of the running call
    mermaid_syntax,  \* agents.py run_crew / synthesizer result: the diagram text
    syntax_ok,       \* last verdict of is_valid_mermaid_syntax: "unchecked", "valid", "invalid"
    flow,            \* run_crew: mapping_task.output.raw, by the shape of its JSON
    candidate,       \* run_crew: mermaid_validation_task.output.raw
    external_ok,     \* run_crew: verdict on the external candidate (line 227)
    synth_calls,     \* run_crew: calls of generate_mermaid_diagram made by the fallback
    synthesized,     \* run_crew: what the fallback call returned ([raised, text])
    log,             \* run_crew: messages given to logger, in order
    returned,        \* run_crew: the value under "mermaid_syntax" of the returned dict
    lookup,          \* what search_mermaid_syntax did for the agent's tool call
    origin,          \* where the text in mermaid_syntax comes from: "external", "internal"
    ranks,           \* layout_graph: ranks, node id -> rank
    queue,           \* layout_graph: queue of <<node id, rank>>
    visited,         \* layout_graph: visited, a set of node ids
    current,         \* layout_graph: <<current_node, current_rank>> of the iteration
    pending,         \* layout_graph: successors the inner for loop has still to take
    enq_count,       \* history: how often each node was put on the queue
    deq_count,       \* history: how often each node was taken off the queue
    enq_log,         \* history: [from, from_rank, to, proposal] of every append at line 65
    proposed,        \* history: node id -> the ranks merged into ranks[id] at lines 60 and 68
    w_text,          \* wrap_text_with_br: the argument text
    w_max_chars,     \* wrap_text_with_br: the argument max_chars
    once,            \* wrap_text_with_br(text, max_chars)
    twice,           \* wrap_text_with_br(once, max_chars)
    calculated,      \* layout_graph: node["calculated_width"], node["calculated_height"], by node index
    position,        \* layout_graph: node["position"], by node index
    rank_todo,       \* layout_graph: the ranks of sorted_ranks the loop at line 111 has still to take
    rows,            \* history: [rank, ids, total_width, start_x] of every row laid out
    max_y,           \* layout_graph: max_y
    run,             \* which run on this input the call is: 1, or 2 for the run on the annotated nodes
    first_run,       \* history: what the first run on this input returned
    other            \* the locals of a second call that is running at the same time, while it is not stepping

crewVars == <<mermaid_syntax, syntax_ok, flow, candidate, external_ok, synth_calls,
              synthesized, log, returned, lookup, origin>>
layoutVars == <<ranks, queue, visited, current, pending, enq_count, deq_count, enq_log,
                proposed>>
wrapVars == <<w_text, w_max_chars, once, twice>>
placeVars == <<calculated, position, rank_todo, rows, max_y, run, first_run, other>>

vars == <<nodes, edges, pc, crewVars, layoutVars, wrapVars, placeVars>>

-----------------------------------------------------------------------------
(* Bounds of the model *)

ParMaxNodes == 3
ParMaxEdges == 2
PlaceMaxNodes == 3
PlaceMaxEdges == 2
SynthMaxNodes == 2
SynthMaxEdges == 1
CrewMaxNodes == 1
CrewMaxEdges == 1
RankMaxNodes == 3
RankMaxEdges == 3
WrapMaxPieces == 4
WrapMaxChars == 3
OrderMaxNodes == 3
OrderMaxEdges == 3
DagNodes == 4
DagMaxEdges == 4
FrameMaxNodes == 2
FrameMaxEdges == 2

-----------------------------------------------------------------------------
(* Text constants of the program *)

\* diagram_generator.py:146  "graph TD\n"  and agents.py:9  startswith("graph TD")
Header == <<"g", "r", "a", "p", "h", " ", "T", "D">>
NL == "\n"
CR == "\r"
\* diagram_generator.py:169,172  the styling wrapper around the label
DivOpen == <<"<", "d", "i", "v", " ", "s", "t", "y", "l", "e", "=", "'", "p", "a", "d", "d", "i", "n", "g", ":", " ", "5", "p", "x", ";", "'", ">">>
DivClose == <<"<", "/", "d", "i", "v", ">">>
Indent == <<" ", " ", " ", " ">>
\* diagram_generator.py:169,172  the f-strings of the node lines open with the
\* control character U+0010 (data link escape); "DLE" stands for that one character
DLE == "DLE"
\* diagram_generator.py:179
Arrow == <<" ", "-", "-", ">", " ">>
\* diagram_generator.py:24,31  the line-break marker
Br == <<"<", "b", "r", "/", ">">>
\* diagram_generator.py:16
MAX_CHARS_PER_LINE == 15

-----------------------------------------------------------------------------
(* Python str operations *)

Min(a, b) == IF a < b THEN a ELSE b
Max(a, b) == IF a > b THEN a ELSE b

\* s.startswith(p)
StartsWith(s, p) == Len(s) >= Len(p) /\ SubSeq(s, 1, Len(p)) = p

\* p in s
Contains(s, p) == \E i \in 1..(Len(s) - Len(p) + 1) : SubSeq(s, i, i + Len(p) - 1) = p

\* str.isspace() of one character, for the characters the model uses
IsSpace(c) == c \in {" ", NL, CR, "\t"}

\* the least element of a non-empty set of integers
Least(S) == CHOOSE x \in S : \A y \in S : x <= y
Greatest(S) == CHOOSE x \in S : \A y \in S : x >= y

\* s.strip()
Strip(s) ==
    LET inked == {i \in 1..Len(s) : ~IsSpace(s[i])}
    IN  IF inked = {} THEN <<>> ELSE SubSeq(s, Least(inked), Greatest(inked))

\* s.splitlines(): "\n", "\r" and "\r\n" end a line; no empty last line
RECURSIVE SplitLines(_)
SplitLines(s) ==
    LET ends == {i \in 1..Len(s) : s[i] \in {NL, CR}}
    IN  IF s = <<>> THEN <<>>
        ELSE IF ends = {} THEN <<s>>
        ELSE LET e == Least(ends)
                 skip == IF s[e] = CR /\ e < Len(s) /\ s[e + 1] = NL THEN 2 ELSE 1
             IN  <<SubSeq(s, 1, e - 1)>> \o SplitLines(SubSeq(s, e + skip, Len(s)))

\* s.split(sep): leftmost non-overlapping occurrences; "".split(sep) = [""]
RECURSIVE Split(_, _)
Split(s, sep) ==
    LET at == {i \in 1..(Len(s) - Len(sep) + 1) : SubSeq(s, i, i + Len(sep) - 1) = sep}
    IN  IF at = {} THEN <<s>>
        ELSE LET i == Least(at)
             IN  <<SubSeq(s, 1, i - 1)>> \o Split(SubSeq(s, i + Len(sep), Len(s)), sep)

\* the concatenation of a sequence of sequences
RECURSIVE Flatten(_)
Flatten(ss) ==
    IF ss = <<>> THEN <<>>
    ELSE IF Len(ss) = 1 THEN ss[1]
    ELSE LET h == Len(ss) \div 2
         IN  Flatten(SubSeq(ss, 1, h)) \o Flatten(SubSeq(ss, h + 1, Len(ss)))

\* sep.join(parts)
Join(parts, sep) ==
    Flatten([i \in 1..Len(parts) |-> IF i = 1 THEN parts[i] ELSE sep \o parts[i]])

\* s.replace(old, new) for a one-character old
Replace(s, old, new) ==
    Flatten([i \in 1..Len(s) |-> IF s[i] = old THEN new ELSE <<s[i]>>])

-----------------------------------------------------------------------------
(* diagram_generator.py: wrap_text_with_br *)

\* chunks one character longer than the limit
ChunksOversize(line, max_chars) ==
    [j \in 1..((Len(line) + max_chars) \div (max_chars + 1)) |->
        SubSeq(line, (j - 1) * (max_chars + 1) + 1, Min(j * (max_chars + 1), Len(line)))]

\* line 27: [line[i:i+max_chars] for i in range(0, len(line), max_chars)]
Chunks(line, max_chars) ==
    [j \in 1..((Len(line) + max_chars - 1) \div max_chars) |->
        SubSeq(line, (j - 1) * max_chars + 1, Min(j * max_chars, Len(line)))]

\* a split that does not look for markers already in the text
SplitBrNone(text) == <<text>>

\* line 24: text.split('<br/>')
SplitBr(text) == Split(text, Br)

\* a wrapper that keeps the first max_chars characters of an over-long line
WrapLineFirstChunk(line, max_chars) == <<SubSeq(line, 1, Min(Len(line), max_chars))>>

\* lines 25-30: the lines one input line contributes to wrapped_lines
WrapLine(line, max_chars) ==
    IF Len(line) > max_chars THEN Chunks(line, max_chars) ELSE <<line>>

\* lines 18-31
wrap_text_with_br(text, max_chars) ==
    LET lines == SplitBr(text)
        wrapped_lines == Flatten([i \in 1..Len(lines) |-> WrapLine(lines[i], max_chars)])
    IN  Join(wrapped_lines, Br)

-----------------------------------------------------------------------------
(* diagram_generator.py: generate_mermaid_diagram *)

\* node.get("shape", "rectangle") of a node without the key
NoShape == "absent"

\* a replace chain without the two replacements of lines 162-163
EscapeLabelNoAngle(label) ==
    LET s1 == Replace(label, "\\", <<"\\", "\\">>)
        s2 == Replace(s1, "[", <<"\\", "[">>)
        s3 == Replace(s2, "]", <<"\\", "]">>)
        s4 == Replace(s3, "{", <<"\\", "{">>)
        s5 == Replace(s4, "}", <<"\\", "}">>)
        s6 == Replace(s5, "(", <<"\\", "(">>)
        s7 == Replace(s6, ")", <<"\\", ")">>)
    IN  Replace(s7, NL, Br)

\* lines 154-164: the replace chain applied to the wrapped label
EscapeLabel(label) ==
    LET s1 == Replace(label, "\\", <<"\\", "\\">>)
        s2 == Replace(s1, "[", <<"\\", "[">>)
        s3 == Replace(s2, "]", <<"\\", "]">>)
        s4 == Replace(s3, "{", <<"\\", "{">>)
        s5 == Replace(s4, "}", <<"\\", "}">>)
        s6 == Replace(s5, "(", <<"\\", "(">>)
        s7 == Replace(s6, ")", <<"\\", ")">>)
        s8 == Replace(s7, "<", <<"&", "l", "t", ";">>)
        s9 == Replace(s8, ">", <<"&", "g", "t", ";">>)
    IN  Replace(s9, NL, Br)

\* lines 150-164
NodeLabel(node) == EscapeLabel(wrap_text_with_br(node.label, MAX_CHARS_PER_LINE))

\* every shape but 'rectangle' and a missing one is drawn as a diamond
ShapeOfUnknownAsDiamond(node) ==
    IF node.shape \in {"rectangle", NoShape} THEN "rectangle" ELSE "diamond"

\* line 166
ShapeOf(node) == IF node.shape = NoShape THEN "rectangle" ELSE node.shape

\* lines 168-173: one declaration line, with its newline
NodeLine(node) ==
    IF ShapeOf(node) = "diamond"
    THEN <<DLE>> \o Indent \o node.id \o <<"{", "\"">> \o DivOpen \o NodeLabel(node) \o DivClose
             \o <<"\"", "}", NL>>
    ELSE <<DLE>> \o Indent \o node.id \o <<"[", "\"">> \o DivOpen \o NodeLabel(node) \o DivClose
             \o <<"\"", "]", NL>>

\* a connector that carries the edge's label
EdgeLineLabelled(edge) ==
    Indent \o edge.source \o <<" ", "-", "-", ">", "|">> \o edge.label \o <<"|", " ">>
        \o edge.target \o <<NL>>

\* lines 177-180
EdgeLine(edge) == Indent \o edge.source \o Arrow \o edge.target \o <<NL>>

\* a synthesizer that opens the text with another diagram keyword
HeaderLineFlowchart == <<"f", "l", "o", "w", "c", "h", "a", "r", "t", " ", "T", "D", NL>>

\* line 146
HeaderLine == Header \o <<NL>>

\* lines 150-151, 177-178: a dict without the key raises KeyError
RaisesKeyError(ns, es) == \E i \in 1..Len(ns) : ~ns[i].keys

\* lines 145-182; [raised |-> TRUE] stands for the exception leaving the function
generate_mermaid_diagram(ns, es) ==
    IF RaisesKeyError(ns, es)
    THEN [raised |-> TRUE, text |-> <<>>]
    ELSE [raised |-> FALSE,
          text |-> HeaderLine
                     \o Flatten([i \in 1..Len(ns) |-> NodeLine(ns[i])])
                     \o Flatten([i \in 1..Len(es) |-> EdgeLine(es[i])])]

-----------------------------------------------------------------------------
(* agents.py: is_valid_mermaid_syntax *)

\* line 13
LineHasMarker(line) ==
    \/ Contains(line, <<"[">>)
    \/ Contains(line, <<"]">>)
    \/ Contains(line, <<"-", "-">>)
    \/ Contains(line, <<"-", "-", ">">>)

\* a validator that asks for the header only
is_valid_by_header(syntax) ==
    IF syntax = <<>> THEN FALSE
    ELSE LET lines == SplitLines(Strip(syntax))
         IN  lines # <<>> /\ StartsWith(Strip(lines[1]), Header)

\* lines 1-15
is_valid_mermaid_syntax(syntax) ==
    IF syntax = <<>> THEN FALSE
    ELSE LET lines == SplitLines(Strip(syntax))
         IN  IF lines = <<>> \/ ~StartsWith(Strip(lines[1]), Header) THEN FALSE
             ELSE \E i \in 2..Len(lines) : LineHasMarker(lines[i])

Verdict(syntax) == IF is_valid_mermaid_syntax(syntax) THEN "valid" ELSE "invalid"

-----------------------------------------------------------------------------
(* agents.py: mermaid_syntax_search_tool *)

NoSyntaxFound == <<"E", "R", "R", "O", "R", ":", " ", "N", "o", " ", "M", "e", "r", "m", "a", "i", "d", " ", "s", "y", "n", "t", "a", "x", " ", "f", "o", "u", "n", "d", " ", "f", "o", "r", " ", "t", "h", "e", " ", "q", "u", "e", "r", "y", ".">>
ToolFailed == <<"E", "R", "R", "O", "R", ":", " ", "M", "e", "r", "m", "a", "i", "d", " ", "s", "y", "n", "t", "a", "x", " ", "s", "e", "a", "r", "c", "h", " ", "t", "o", "o", "l", " ", "f", "a", "i", "l", "e", "d", ":", " ">>

\* lines 113-124; look = [raised, results] is what search_mermaid_syntax did
mermaid_syntax_search_tool(look) ==
    IF look.raised THEN ToolFailed
    ELSE IF look.results = <<>> THEN NoSyntaxFound
    ELSE look.results[1]

-----------------------------------------------------------------------------
(* Inputs *)

IdSeq == << <<"1">>, <<"2">>, <<"1", "0">>, <<"3">>, <<"4">> >>

LabelStart == <<"S", "t", "a", "r", "t">>
LabelCheck == <<"C", "h", "e", "c", "k", " ", "C", "o", "n", "d", "i", "t", "i", "o", "n">>
LabelIndex == <<"a", "[", "1", "]">>
LabelTwoLines == <<"x", NL, "y">>
LabelLong == <<"S", "e", "n", "d", " ", "E", "m", "a", "i", "l", " ", "R", "e", "p", "o", "r", "t">>
LabelSpecials == <<"a", "\\", "[", "b", "]", "{", "c", "}", "(", "d", ")", "<", "e", ">">>
LabelLongAngle ==
    <<"i", "f", " ", "(", "c", "o", "u", "n", "t", " ", "<", " ", "l", "i", "m", "i", "t", ")", NL, "r", "e", "t", "r", "y", " ", "[", "3", "]">>
LabelCheckBr == <<"C", "h", "e", "c", "k", "<", "b", "r", "/", ">", "C", "o", "n", "d", "i", "t", "i", "o", "n">>
LabelThreeLines ==
    <<"C", "h", "e", "c", "k">> \o Br \o <<"S", "t", "o", "c", "k">> \o Br \o <<"L", "e", "v", "e", "l">>

CandArrow == <<"g", "r", "a", "p", "h", " ", "T", "D", NL, " ", " ", " ", " ", "A", " ", "-", "-", ">", " ", "B">>
CandPadded == <<NL, " ", " ", "g", "r", "a", "p", "h", " ", "T", "D", " ", NL, "A", "[", "x", "]", NL>>
CandHeaderOnly == <<"g", "r", "a", "p", "h", " ", "T", "D", NL>>
CandLeftRight == <<"g", "r", "a", "p", "h", " ", "L", "R", NL, "A", " ", "-", "-", ">", " ", "B">>
CandDiamond == <<"g", "r", "a", "p", "h", " ", "T", "D", NL, " ", " ", " ", " ", "2", "{", "x", "}">>
CandOneLine == <<"g", "r", "a", "p", "h", " ", "T", "D", ";", " ", "A", " ", "-", "-", ">", " ", "B">>
CandCrLf == <<"g", "r", "a", "p", "h", " ", "T", "D", CR, NL, "A", "[", "x", "]">>
CandBlank == <<" ", NL, " ">>

Shapes == {"rectangle", "diamond", "circle", NoShape}

\* node lists of at most n nodes: node i has the i-th id, unique within the list
NodeLists(n, labels, shapes, keys) ==
    UNION { { [i \in 1..k |-> [id |-> IdSeq[i], label |-> f[i][1], shape |-> f[i][2],
                               keys |-> f[i][3]]] :
                f \in [1..k -> labels \X shapes \X keys] } : k \in 0..n }

\* edge lists of at most n edges between the given ids
EdgeLists(n, ids) ==
    UNION { [1..k -> [source : ids, target : ids]] : k \in 0..n }

SynthLabels == {LabelStart, LabelIndex, LabelTwoLines, LabelLong, LabelSpecials, LabelLongAngle}
SynthNodeLists == NodeLists(SynthMaxNodes, SynthLabels, Shapes, {TRUE})
\* edges as the mapping task writes them, with a "label" (empty when there is none)
EdgeLabels == {<<>>, <<"T", "r", "u", "e">>}
SynthEdgeLists ==
    UNION { [1..k -> [source : {IdSeq[1], IdSeq[2]}, target : {IdSeq[1], IdSeq[2]},
                      label : EdgeLabels]] : k \in 0..SynthMaxEdges }

\* external candidates: what the agent may hand back as its final answer
Candidates == {<<>>, CandBlank, NoSyntaxFound, ToolFailed, CandArrow, CandPadded,
               CandHeaderOnly, CandLeftRight, CandDiamond, CandOneLine, CandCrLf}

Lookups == {[raised |-> TRUE, results |-> <<>>],
            [raised |-> FALSE, results |-> <<>>],
            [raised |-> FALSE, results |-> <<CandArrow, CandPadded>>]}

CrewNodeLists == NodeLists(CrewMaxNodes, {LabelCheck, LabelIndex},
                           {"rectangle", "diamond"}, BOOLEAN)
CrewEdgeLists == EdgeLists(CrewMaxEdges, {IdSeq[1], IdSeq[2]})

\* mapping_task.output.raw by what json.loads makes of it
Flows == [kind : {"empty", "not_json", "not_object"}, nodes : {<<>>}, edges : {<<>>}]
         \cup [kind : {"object"}, nodes : CrewNodeLists, edges : CrewEdgeLists]

NoResult == [raised |-> FALSE, text |-> <<>>]
NoLookup == [raised |-> FALSE, results |-> <<>>]
NoFlow == [kind |-> "empty", nodes |-> <<>>, edges |-> <<>>]

NoCurrent == <<<<>>, 0>>

\* the variables of the parts a specification leaves alone
CrewIdle ==
    /\ mermaid_syntax = <<>>
    /\ syntax_ok = "unchecked"
    /\ flow = NoFlow
    /\ candidate = <<>>
    /\ external_ok = "unchecked"
    /\ synth_calls = 0
    /\ synthesized = NoResult
    /\ log = <<>>
    /\ returned = <<>>
    /\ lookup = NoLookup
    /\ origin = "internal"

LayoutIdle ==
    /\ ranks = <<>>
    /\ queue = <<>>
    /\ visited = {}
    /\ current = NoCurrent
    /\ pending = <<>>
    /\ enq_count = <<>>
    /\ deq_count = <<>>
    /\ enq_log = {}
    /\ proposed = <<>>

WrapIdle ==
    /\ w_text = <<>>
    /\ w_max_chars = 1
    /\ once = <<>>
    /\ twice = <<>>

NoFirst == [position |-> <<>>, max_y |-> 0, text |-> <<>>]
NoOther == [pc |-> "none"]

PlaceIdle ==
    /\ calculated = <<>>
    /\ position = <<>>
    /\ rank_todo = <<>>
    /\ rows = {}
    /\ max_y = 0
    /\ run = 1
    /\ first_run = NoFirst
    /\ other = NoOther

-----------------------------------------------------------------------------
(* The synthesizer followed by the validator, on every input *)

SynthInit ==
    /\ nodes \in SynthNodeLists
    /\ edges \in SynthEdgeLists
    /\ pc = "synthesize"
    /\ CrewIdle
    /\ LayoutIdle
    /\ WrapIdle
    /\ PlaceIdle

\* generate_mermaid_diagram(nodes, edges)
Synthesize ==
    /\ pc = "synthesize"
    /\ synthesized' = generate_mermaid_diagram(nodes, edges)
    /\ mermaid_syntax' = synthesized'.text
    /\ pc' = IF synthesized'.raised THEN "raised" ELSE "check"
    /\ UNCHANGED <<nodes, edges, syntax_ok, flow, candidate, external_ok, synth_calls,
                   log, returned, lookup, origin,
                   layoutVars, wrapVars, placeVars>>

\* is_valid_mermaid_syntax(mermaid_syntax)
CheckSyntax ==
    /\ pc = "check"
    /\ syntax_ok' = Verdict(mermaid_syntax)
    /\ pc' = "checked"
    /\ UNCHANGED <<nodes, edges, mermaid_syntax, flow, candidate, external_ok,
                   synth_calls, synthesized, log, returned, lookup, origin,
                   layoutVars, wrapVars, placeVars>>

SynthNext == Synthesize \/ CheckSyntax

SynthSpec == SynthInit /\ [][SynthNext]_vars

-----------------------------------------------------------------------------
(* agents.py: run_crew, from the task outputs to the returned dict *)

\* a controller that re-synthesizes whatever the verdict
AlwaysFallback(syntax) == TRUE

\* line 227: the fallback is taken when the candidate fails the check
NeedsFallback(syntax) == ~is_valid_mermaid_syntax(syntax)

\* lines 211-224: the (nodes, edges) the controller works on
ParsedFlow(fl) ==
    IF fl.kind = "object"
    THEN [nodes |-> fl.nodes, edges |-> fl.edges, logged |-> <<>>]
    ELSE IF fl.kind = "empty"
    THEN [nodes |-> <<>>, edges |-> <<>>, logged |-> <<>>]
    ELSE [nodes |-> <<>>, edges |-> <<>>,
          logged |-> <<"ERROR Error processing flow diagram">>]

\* the try block without its handler: the exception leaves run_crew
FallbackStepUncaught(cur, ns, es) ==
    LET r == generate_mermaid_diagram(ns, es)
    IN  IF r.raised
        THEN [next |-> "raised", syntax |-> cur, origin |-> "external", result |-> r,
              logged |-> <<>>]
        ELSE [next |-> "revalidate", syntax |-> r.text, origin |-> "internal",
              result |-> r, logged |-> <<>>]

\* a fallback that adopts the synthesized text only when it passes the check
FallbackStepOnlyIfValid(cur, ns, es) ==
    LET r == generate_mermaid_diagram(ns, es)
    IN  IF r.raised \/ ~is_valid_mermaid_syntax(r.text)
        THEN [next |-> "return", syntax |-> cur, origin |-> "external", result |-> r,
              logged |-> <<"ERROR Error in fallback Mermaid generation">>]
        ELSE [next |-> "revalidate", syntax |-> r.text, origin |-> "internal",
              result |-> r, logged |-> <<>>]

\* lines 229-235: the try block and its handler; cur is mermaid_syntax before it
FallbackStep(cur, ns, es) ==
    LET r == generate_mermaid_diagram(ns, es)
    IN  IF r.raised
        THEN [next |-> "return", syntax |-> cur, origin |-> "external", result |-> r,
              logged |-> <<"ERROR Error in fallback Mermaid generation">>]
        ELSE [next |-> "revalidate", syntax |-> r.text, origin |-> "internal",
              result |-> r, logged |-> <<>>]

CrewInit ==
    /\ flow \in Flows
    /\ lookup \in Lookups
    /\ candidate \in Candidates
    /\ mermaid_syntax = candidate
    /\ origin = "external"
    /\ nodes = <<>>
    /\ edges = <<>>
    /\ pc = "parse"
    /\ syntax_ok = "unchecked"
    /\ external_ok = "unchecked"
    /\ synth_calls = 0
    /\ synthesized = NoResult
    /\ log = <<>>
    /\ returned = <<>>
    /\ LayoutIdle
    /\ WrapIdle
    /\ PlaceIdle

\* lines 211-224
ParseFlowDiagram ==
    /\ pc = "parse"
    /\ nodes' = ParsedFlow(flow).nodes
    /\ edges' = ParsedFlow(flow).edges
    /\ log' = log \o ParsedFlow(flow).logged
    /\ pc' = "validate"
    /\ UNCHANGED <<mermaid_syntax, syntax_ok, flow, candidate, external_ok, synth_calls,
                   synthesized, returned, lookup, origin,
                   layoutVars, wrapVars, placeVars>>

\* lines 227-228
ValidateExternal ==
    /\ pc = "validate"
    /\ external_ok' = Verdict(mermaid_syntax)
    /\ IF NeedsFallback(mermaid_syntax)
       THEN /\ log' = Append(log, "WARNING Invalid Mermaid syntax detected. Falling back to internal generation.")
            /\ pc' = "fallback"
       ELSE /\ log' = log
            /\ pc' = "return"
    /\ UNCHANGED <<nodes, edges, mermaid_syntax, syntax_ok, flow, candidate, synth_calls,
                   synthesized, returned, lookup, origin,
                   layoutVars, wrapVars, placeVars>>

\* lines 229-231 and 234-235
FallbackSynthesize ==
    /\ pc = "fallback"
    /\ LET step == FallbackStep(mermaid_syntax, nodes, edges)
       IN  /\ synth_calls' = synth_calls + 1
           /\ synthesized' = step.result
           /\ mermaid_syntax' = step.syntax
           /\ origin' = step.origin
           /\ log' = log \o step.logged
           /\ pc' = step.next
    /\ UNCHANGED <<nodes, edges, syntax_ok, flow, candidate, external_ok, returned, lookup,
                   layoutVars, wrapVars, placeVars>>

\* lines 232-233
RevalidateInternal ==
    /\ pc = "revalidate"
    /\ syntax_ok' = Verdict(mermaid_syntax)
    /\ log' = IF syntax_ok' = "invalid"
              THEN Append(log, "ERROR Fallback Mermaid syntax is also invalid.")
              ELSE log
    /\ pc' = "return"
    /\ UNCHANGED <<nodes, edges, mermaid_syntax, flow, candidate, external_ok, synth_calls,
                   synthesized, returned, lookup, origin,
                   layoutVars, wrapVars, placeVars>>

\* lines 237-241
Return ==
    /\ pc = "return"
    /\ returned' = mermaid_syntax
    /\ pc' = "returned"
    /\ UNCHANGED <<nodes, edges, mermaid_syntax, syntax_ok, flow, candidate, external_ok,
                   synth_calls, synthesized, log, lookup, origin,
                   layoutVars, wrapVars, placeVars>>

CrewNext ==
    \/ ParseFlowDiagram
    \/ ValidateExternal
    \/ FallbackSynthesize
    \/ RevalidateInternal
    \/ Return

CrewSpec == CrewInit /\ [][CrewNext]_vars

\* the controller's state, by the position of the call and the verdicts so far
ControllerState ==
    CASE pc \in {"parse", "validate"} -> "CANDIDATE_EXTERNAL"
      [] pc = "fallback" -> "INVALID"
      [] pc = "revalidate" -> "CANDIDATE_INTERNAL"
      [] pc \in {"return", "returned"} ->
            IF external_ok = "valid" \/ syntax_ok = "valid"
            THEN "VALIDATED" ELSE "INVALID_TERMINAL"
      [] pc = "raised" -> "RAISED"
      [] OTHER -> "NONE"

-----------------------------------------------------------------------------
(* diagram_generator.py: layout_graph, the graph and the rank assignment *)

Range(seq) == {seq[i] : i \in 1..Len(seq)}

\* dict insertion order: every key once, at the place of its first insertion
FirstOccurrences(seq) ==
    LET first == SelectSeq([i \in 1..Len(seq) |-> i],
                           LAMBDA i : \A j \in 1..(i - 1) : seq[j] # seq[i])
    IN  [k \in 1..Len(first) |-> seq[first[k]]]

\* lines 35-38: the ids in the order add_node and add_edge are given them
InsertedIds(ns, es) ==
    [i \in 1..Len(ns) |-> ns[i].id]
        \o [i \in 1..(2 * Len(es)) |->
               IF i % 2 = 1 THEN es[(i + 1) \div 2].source ELSE es[i \div 2].target]

\* lines 34-38: G.nodes() in insertion order: the listed nodes, then the endpoints
\* that add_edge had to create
G_nodes(ns, es) == FirstOccurrences(InsertedIds(ns, es))

\* line 62: G.successors(u), in the order the edges were added
G_successors(es, u) ==
    LET out == SelectSeq(es, LAMBDA e : e.source = u)
    IN  FirstOccurrences([i \in 1..Len(out) |-> out[i].target])

\* line 52: the in-degree of a DiGraph counts distinct predecessors
G_in_degree(es, v) == Cardinality({es[i].source : i \in {j \in 1..Len(es) : es[j].target = v}})

\* only the first node without incoming edges starts the traversal
SourcesFirstOnly(ns, es) ==
    LET all == SelectSeq(G_nodes(ns, es), LAMBDA n : G_in_degree(es, n) = 0)
    IN  IF all = <<>> THEN <<>> ELSE <<Head(all)>>

\* line 52
Sources(ns, es) == SelectSeq(G_nodes(ns, es), LAMBDA n : G_in_degree(es, n) = 0)

\* ranks kept for the listed nodes only
ListedIds(ns, es) == {ns[i].id : i \in 1..Len(ns)}

\* line 46: the keys of ranks
RankedIds(ns, es) == Range(G_nodes(ns, es))

\* a plain assignment: the proposal replaces the stored rank
MergeRankLast(stored, proposal) == proposal

\* a merge that keeps the smaller rank
MergeRankMin(stored, proposal) == Min(stored, proposal)

\* lines 60 and 68: max(ranks[n], proposal)
MergeRank(stored, proposal) == Max(stored, proposal)

\* a membership test that never finds the successor
NeverVisited(successor, seen) == FALSE

\* line 63, negated: successor in visited
AlreadyVisited(successor, seen) == successor \in seen

\* an id that an edge may name although no node has it
DanglingId == <<"9">>

RankNodeLists == NodeLists(RankMaxNodes, {LabelStart}, {"rectangle"}, {TRUE})

GNodeSet == Range(G_nodes(nodes, edges))

\* a node dict that layout_graph has not annotated
NoDimensions == [set |-> FALSE, width |-> 0, height |-> 0]
NoPosition == [set |-> FALSE, x |-> 0, y |-> 0, width |-> 0, height |-> 0]

\* lines 34-56: the locals of a call on (ns, es) when the while loop is first reached
LoopEntry(ns, es) ==
    [ranks |-> [n \in RankedIds(ns, es) |-> 0],
     queue |-> [i \in 1..Len(Sources(ns, es)) |-> <<Sources(ns, es)[i], 0>>],
     visited |-> Range(Sources(ns, es)),
     enq_count |-> [n \in Range(G_nodes(ns, es)) |->
                       IF n \in Range(Sources(ns, es)) THEN 1 ELSE 0],
     deq_count |-> [n \in Range(G_nodes(ns, es)) |-> 0],
     proposed |-> [n \in RankedIds(ns, es) |-> {}]]

\* the state when the while loop of a first call on (nodes, edges) is first reached
AtLoopEntry ==
    /\ ranks = LoopEntry(nodes, edges).ranks
    /\ queue = LoopEntry(nodes, edges).queue
    /\ visited = LoopEntry(nodes, edges).visited
    /\ current = NoCurrent
    /\ pending = <<>>
    /\ enq_count = LoopEntry(nodes, edges).enq_count
    /\ deq_count = LoopEntry(nodes, edges).deq_count
    /\ enq_log = {}
    /\ proposed = LoopEntry(nodes, edges).proposed
    /\ calculated = [i \in 1..Len(nodes) |-> NoDimensions]
    /\ position = [i \in 1..Len(nodes) |-> NoPosition]
    /\ rank_todo = <<>>
    /\ rows = {}
    /\ max_y = 0
    /\ run = 1
    /\ first_run = NoFirst
    /\ pc = "loop"
    /\ CrewIdle
    /\ WrapIdle

\* lines 34-56, on every graph of the rank assignment's bounds
LayoutInit ==
    /\ nodes \in RankNodeLists
    /\ edges \in EdgeLists(RankMaxEdges, ListedIds(nodes, <<>>) \cup {DanglingId})
    /\ other = NoOther
    /\ AtLoopEntry

\* lines 58-60 and the start of the for loop at line 62
Dequeue ==
    /\ pc = "loop"
    /\ queue # <<>>
    /\ LET current_node == Head(queue)[1]
           current_rank == Head(queue)[2]
       IN  /\ current' = Head(queue)
           /\ queue' = Tail(queue)
           /\ ranks' = [ranks EXCEPT ![current_node] = MergeRank(@, current_rank)]
           /\ proposed' = [proposed EXCEPT ![current_node] = @ \cup {current_rank}]
           /\ pending' = G_successors(edges, current_node)
           /\ deq_count' = [deq_count EXCEPT ![current_node] = @ + 1]
           /\ pc' = IF pending' = <<>> THEN "loop" ELSE "successors"
    /\ UNCHANGED <<nodes, edges, visited, enq_count, enq_log, crewVars, wrapVars, placeVars>>

\* lines 62-65: a successor seen for the first time
EnqueueSuccessor ==
    /\ pc = "successors"
    /\ LET successor == Head(pending)
           current_rank == current[2]
       IN  /\ ~AlreadyVisited(successor, visited)
           /\ visited' = visited \cup {successor}
           /\ queue' = Append(queue, <<successor, current_rank + 1>>)
           /\ enq_count' = [enq_count EXCEPT ![successor] = @ + 1]
           /\ enq_log' = enq_log \cup {[from |-> current[1], from_rank |-> current_rank,
                                        to |-> successor, proposal |-> current_rank + 1]}
    /\ pending' = Tail(pending)
    /\ pc' = IF pending' = <<>> THEN "loop" ELSE "successors"
    /\ UNCHANGED <<nodes, edges, ranks, current, deq_count, proposed, crewVars, wrapVars,
                   placeVars>>

\* lines 62, 66-68: a successor that is in visited already
RaiseVisitedSuccessor ==
    /\ pc = "successors"
    /\ LET successor == Head(pending)
           current_rank == current[2]
       IN  /\ AlreadyVisited(successor, visited)
           /\ ranks' = [ranks EXCEPT ![successor] = MergeRank(@, current_rank + 1)]
           /\ proposed' = [proposed EXCEPT ![successor] = @ \cup {current_rank + 1}]
    /\ pending' = Tail(pending)
    /\ pc' = IF pending' = <<>> THEN "loop" ELSE "successors"
    /\ UNCHANGED <<nodes, edges, queue, visited, current, enq_count, deq_count, enq_log,
                   crewVars, wrapVars, placeVars>>

\* line 58 with the queue empty, and lines 72-74
QueueDrained ==
    /\ pc = "loop"
    /\ queue = <<>>
    /\ ranks' = [n \in GNodeSet |-> IF n \in DOMAIN ranks THEN ranks[n] ELSE 0]
    /\ pc' = "ranked"
    /\ UNCHANGED <<nodes, edges, queue, visited, current, pending, enq_count, deq_count,
                   enq_log, proposed, crewVars, wrapVars, placeVars>>

-----------------------------------------------------------------------------
(* diagram_generator.py: layout_graph, dimensions and positions.             *)
(* Pixel values are kept in tenths of a pixel, so that the safety factor 1.2 *)
(* is the integer 12 and every value the code computes is an integer.        *)

DEFAULT_CHAR_WIDTH_ESTIMATE == 25
DEFAULT_LINE_HEIGHT_ESTIMATE == 40
DEFAULT_VIEWBOX_WIDTH == 1200
PADDING_WIDTH == 150
PADDING_HEIGHT == 80
\* 1.2, in tenths
SAFETY_FACTOR_WIDTH == 12
SAFETY_FACTOR_HEIGHT == 12
x_spacing == 50
y_spacing == 100
\* the offset added to every y at line 129
y_offset == 5

\* a pixel count of the source, in tenths of a pixel
Px(n) == n * 10

RECURSIVE SeqSum(_)
\* sum(...) at line 118
SeqSum(seq) == IF seq = <<>> THEN 0 ELSE Head(seq) + SeqSum(Tail(seq))

\* sorted(...) at line 85: the distinct values in increasing order
SortedInts(S) ==
    [k \in 1..Cardinality(S) |-> CHOOSE x \in S : Cardinality({y \in S : y < x}) = k - 1]

\* the order of the characters the ids are written with
CodePoint(c) ==
    CHOOSE k \in 0..9 : <<"0", "1", "2", "3", "4", "5", "6", "7", "8", "9">>[k + 1] = c

\* str.__lt__: the order list.sort() puts the ids in at line 114
LexLess(a, b) ==
    \E k \in 1..Len(b) :
        /\ k <= Len(a) + 1
        /\ SubSeq(a, 1, k - 1) = SubSeq(b, 1, k - 1)
        /\ (k = Len(a) + 1 \/ CodePoint(a[k]) < CodePoint(b[k]))

\* the ids of rank r in the order the ranks dict holds them (line 112, no sort)
InsertionOrderRow(rk, r, inserted) == SelectSeq(inserted, LAMBDA n : rk[n] = r)

\* lines 112-114: current_rank_nodes after the sort
current_rank_nodes(rk, r, inserted) ==
    LET S == {n \in Range(inserted) : rk[n] = r}
    IN  [k \in 1..Cardinality(S) |->
            CHOOSE x \in S : Cardinality({y \in S : LexLess(y, x)}) = k - 1]

\* lines 85: sorted_ranks
sorted_ranks(rk) == SortedInts({rk[n] : n \in DOMAIN rk})

\* a lookup that fails for an id that is not in the node list
NodeOfOrRaise(ns, node_id) ==
    IF \E i \in 1..Len(ns) : ns[i].id = node_id
    THEN Least({i \in 1..Len(ns) : ns[i].id = node_id})
    ELSE -1

\* line 125: next((n for n in nodes if n["id"] == node_id), None), as the index
\* of the node, 0 standing for None
NodeOf(ns, node_id) ==
    IF \E i \in 1..Len(ns) : ns[i].id = node_id
    THEN Least({i \in 1..Len(ns) : ns[i].id = node_id})
    ELSE 0

\* line 118: next((n["calculated_width"] for n in nodes if n["id"] == node_id), 0)
WidthOf(ns, calc, node_id) ==
    IF NodeOf(ns, node_id) > 0 THEN calc[NodeOf(ns, node_id)].width ELSE 0

\* line 129: next((n["calculated_height"] for n in nodes if n["id"] == node_id), 0)
HeightOf(ns, calc, node_id) ==
    IF NodeOf(ns, node_id) > 0 THEN calc[NodeOf(ns, node_id)].height ELSE 0

\* dimensions that grow with what an earlier run left in the node
DimensionsAccumulated(node, annotated) ==
    LET lines == SplitBr(node.label)
        text_width == Greatest({0} \cup {Len(lines[k]) * Px(DEFAULT_CHAR_WIDTH_ESTIMATE) :
                                           k \in 1..Len(lines)})
    IN  [set |-> TRUE,
         width |-> annotated.width
                     + ((text_width + Px(PADDING_WIDTH)) * SAFETY_FACTOR_WIDTH) \div 10,
         height |-> ((Len(lines) * Px(DEFAULT_LINE_HEIGHT_ESTIMATE) + Px(PADDING_HEIGHT))
                        * SAFETY_FACTOR_HEIGHT) \div 10]

\* lines 92-105: the dimensions of one node, from its label alone
Dimensions(node, annotated) ==
    LET lines == SplitBr(node.label)
        text_width == Greatest({0} \cup {Len(lines[k]) * Px(DEFAULT_CHAR_WIDTH_ESTIMATE) :
                                           k \in 1..Len(lines)})
    IN  [set |-> TRUE,
         width |-> ((text_width + Px(PADDING_WIDTH)) * SAFETY_FACTOR_WIDTH) \div 10,
         height |-> ((Len(lines) * Px(DEFAULT_LINE_HEIGHT_ESTIMATE) + Px(PADDING_HEIGHT))
                        * SAFETY_FACTOR_HEIGHT) \div 10]

\* lines 118-119: current_rank_total_width
RowTotalWidth(ns, calc, row) ==
    SeqSum([k \in 1..Len(row) |-> WidthOf(ns, calc, row[k])]) + (Len(row) - 1) * Px(x_spacing)

\* line 121: current_rank_start_x_offset
RowStartX(total) ==
    IF total < Px(DEFAULT_VIEWBOX_WIDTH) THEN (Px(DEFAULT_VIEWBOX_WIDTH) - total) \div 2 ELSE 0

\* lines 123-133: current_x_position when the k-th id of the row is taken: only
\* the ids found in the node list have advanced it
RowX(ns, calc, row, start, k) ==
    start + SeqSum([j \in 1..(k - 1) |->
                       IF NodeOf(ns, row[j]) > 0
                       THEN WidthOf(ns, calc, row[j]) + Px(x_spacing) ELSE 0])

\* a y without the offset of line 129
RowYNoOffset(ns, calc, row, rank) ==
    rank * (Greatest({HeightOf(ns, calc, row[k]) : k \in 1..Len(row)}) + Px(y_spacing))

\* line 129
RowY(ns, calc, row, rank) ==
    rank * (Greatest({HeightOf(ns, calc, row[k]) : k \in 1..Len(row)}) + Px(y_spacing))
        + Px(y_offset)

\* lines 76-105: nodes_by_rank, sorted_ranks and the dimensions of every node
ComputeDimensions ==
    /\ pc = "ranked"
    /\ calculated' = [i \in 1..Len(nodes) |-> Dimensions(nodes[i], calculated[i])]
    /\ rank_todo' = sorted_ranks(ranks)
    /\ pc' = "place"
    /\ UNCHANGED <<nodes, edges, crewVars, layoutVars, wrapVars,
                   position, rows, max_y, run, first_run, other>>

\* lines 111-133: one iteration of the loop over sorted_ranks
PlaceRank ==
    /\ pc = "place"
    /\ rank_todo # <<>>
    /\ LET rank == Head(rank_todo)
           row == current_rank_nodes(ranks, rank, G_nodes(nodes, edges))
           total == RowTotalWidth(nodes, calculated, row)
           start == RowStartX(total)
           found == [k \in 1..Len(row) |-> NodeOf(nodes, row[k])]
       IN  /\ position' =
                 [i \in 1..Len(nodes) |->
                     IF \E k \in 1..Len(row) : found[k] = i
                     THEN LET k == CHOOSE k \in 1..Len(row) : found[k] = i
                          IN  [set |-> TRUE,
                               x |-> RowX(nodes, calculated, row, start, k),
                               y |-> RowY(nodes, calculated, row, rank),
                               width |-> calculated[i].width,
                               height |-> calculated[i].height]
                     ELSE position[i]]
           /\ rows' = rows \cup {[rank |-> rank, ids |-> row, total_width |-> total,
                                  start_x |-> start]}
           /\ pc' = IF \E k \in 1..Len(row) : found[k] < 0 THEN "raised" ELSE "place"
    /\ rank_todo' = Tail(rank_todo)
    /\ UNCHANGED <<nodes, edges, crewVars, layoutVars, wrapVars,
                   calculated, max_y, run, first_run, other>>

\* lines 135-143: max_y and the return
MeasureCanvas ==
    /\ pc = "place"
    /\ rank_todo = <<>>
    /\ max_y' = Greatest({0} \cup {position[i].y + position[i].height :
                                      i \in {j \in 1..Len(nodes) : position[j].set}})
                  + Px(y_spacing)
    /\ pc' = "laid_out"
    /\ UNCHANGED <<nodes, edges, crewVars, layoutVars, wrapVars,
                   calculated, position, rank_todo, rows, run, first_run, other>>

\* lines 145-182: generate_mermaid_diagram on the nodes layout_graph returned
SynthesizeLaidOut ==
    /\ pc = "laid_out"
    /\ mermaid_syntax' = generate_mermaid_diagram(nodes, edges).text
    /\ pc' = "done"
    /\ UNCHANGED <<nodes, edges, syntax_ok, flow, candidate, external_ok, synth_calls,
                   synthesized, log, returned, lookup, origin,
                   layoutVars, wrapVars, placeVars>>

\* the caller asks for regeneration from the same (nodes, edges): lines 34-56 of
\* a second call, on the node dicts the first call has annotated
Regenerate ==
    /\ pc = "done"
    /\ run = 1
    /\ first_run' = [position |-> position, max_y |-> max_y, text |-> mermaid_syntax]
    /\ run' = 2
    /\ ranks' = LoopEntry(nodes, edges).ranks
    /\ queue' = LoopEntry(nodes, edges).queue
    /\ visited' = LoopEntry(nodes, edges).visited
    /\ current' = NoCurrent
    /\ pending' = <<>>
    /\ enq_count' = LoopEntry(nodes, edges).enq_count
    /\ deq_count' = LoopEntry(nodes, edges).deq_count
    /\ enq_log' = {}
    /\ proposed' = LoopEntry(nodes, edges).proposed
    /\ rank_todo' = <<>>
    /\ rows' = {}
    /\ max_y' = 0
    /\ mermaid_syntax' = <<>>
    /\ pc' = "loop"
    /\ UNCHANGED <<nodes, edges, syntax_ok, flow, candidate, external_ok, synth_calls,
                   synthesized, log, returned, lookup, origin,
                   wrapVars, calculated, position, other>>

LayoutNext ==
    \/ Dequeue
    \/ EnqueueSuccessor
    \/ RaiseVisitedSuccessor
    \/ QueueDrained
    \/ ComputeDimensions
    \/ PlaceRank
    \/ MeasureCanvas
    \/ SynthesizeLaidOut
    \/ Regenerate

LayoutSpec == LayoutInit /\ [][LayoutNext]_vars

\* layout_graph and generate_mermaid_diagram on nodes of different widths and heights
PlaceNodeLists == NodeLists(PlaceMaxNodes, {LabelStart, LabelCheckBr, LabelCheck},
                            {"rectangle"}, {TRUE})

\* node lists with labels of one line and of three lines
PlaceTallNodeLists == NodeLists(PlaceMaxNodes, {LabelStart, LabelThreeLines},
                                {"rectangle"}, {TRUE})

PlaceInit ==
    /\ nodes \in PlaceNodeLists \cup PlaceTallNodeLists
    /\ edges \in EdgeLists(PlaceMaxEdges, ListedIds(nodes, <<>>) \cup {DanglingId})
    /\ other = NoOther
    /\ AtLoopEntry

PlaceSpec == PlaceInit /\ [][LayoutNext]_vars

\* node lists whose ids stand in any order: the nodes of each list carry distinct
\* ids out of the first OrderMaxNodes ones, in every arrangement
OrderNodeLists ==
    UNION { { [i \in 1..k |-> [id |-> IdSeq[f[i]], label |-> LabelStart,
                               shape |-> "rectangle", keys |-> TRUE]] :
                f \in {g \in [1..k -> 1..OrderMaxNodes] :
                          \A a, b \in 1..k : a # b => g[a] # g[b]} } : k \in 0..OrderMaxNodes }

\* a list of DagNodes nodes, and the edge lists over it that point from a node to
\* a later node of the list, which are acyclic
DagNodeList ==
    [i \in 1..DagNodes |-> [id |-> IdSeq[i], label |-> LabelStart, shape |-> "rectangle",
                            keys |-> TRUE]]
ForwardEdges ==
    {e \in [source : Range(IdSeq), target : Range(IdSeq)] :
        \E i, j \in 1..DagNodes : i < j /\ e.source = IdSeq[i] /\ e.target = IdSeq[j]}
DagEdgeLists == UNION { [1..k -> ForwardEdges] : k \in 0..DagMaxEdges }

\* lines 34-56 on the node lists in every order with every edge list between
\* their nodes, in every order, and on the acyclic graphs over DagNodes nodes
OrderInit ==
    /\ \/ /\ nodes \in OrderNodeLists
          /\ edges \in EdgeLists(OrderMaxEdges, ListedIds(nodes, <<>>))
       \/ /\ nodes = DagNodeList
          /\ edges \in DagEdgeLists
    /\ other = NoOther
    /\ AtLoopEntry

OrderSpec == OrderInit /\ [][LayoutNext]_vars

-----------------------------------------------------------------------------
(* Two calls of layout_graph / generate_mermaid_diagram running at the same  *)
(* time, each on its own (nodes, edges). The variables hold the locals of    *)
(* the call that is stepping, other holds the locals of the call that is     *)
(* not; the module has no variable that both calls write.                    *)

\* the locals and the input of the call that is stepping
CallContext ==
    [nodes |-> nodes, edges |-> edges, pc |-> pc, ranks |-> ranks, queue |-> queue,
     visited |-> visited, current |-> current, pending |-> pending,
     enq_count |-> enq_count, deq_count |-> deq_count, enq_log |-> enq_log,
     proposed |-> proposed,
     calculated |-> calculated, position |-> position, rank_todo |-> rank_todo,
     rows |-> rows, max_y |-> max_y, run |-> run, first_run |-> first_run,
     mermaid_syntax |-> mermaid_syntax]

\* lines 34-56: the locals of a call on (ns, es) that has reached its while loop
StartContext(ns, es) ==
    [nodes |-> ns, edges |-> es, pc |-> "loop", ranks |-> LoopEntry(ns, es).ranks,
     queue |-> LoopEntry(ns, es).queue, visited |-> LoopEntry(ns, es).visited,
     current |-> NoCurrent, pending |-> <<>>,
     enq_count |-> LoopEntry(ns, es).enq_count, deq_count |-> LoopEntry(ns, es).deq_count,
     enq_log |-> {}, proposed |-> LoopEntry(ns, es).proposed,
     calculated |-> [i \in 1..Len(ns) |-> NoDimensions],
     position |-> [i \in 1..Len(ns) |-> NoPosition], rank_todo |-> <<>>,
     rows |-> {}, max_y |-> 0, run |-> 1, first_run |-> NoFirst, mermaid_syntax |-> <<>>]

\* a call that finds the visited set of the other call in place of its own
ResumeSharedVisited(ctx) == [ctx EXCEPT !.visited = visited]

\* what a call finds when it steps again: its own locals, as it left them
Resume(ctx) == ctx

\* the interpreter lets the other call step; a call's first run on its input is
\* left to run alone, as the reference for its second run
Switch ==
    /\ other.pc # "none"
    /\ run = 2
    /\ other' = CallContext
    /\ nodes' = Resume(other).nodes
    /\ edges' = Resume(other).edges
    /\ pc' = Resume(other).pc
    /\ ranks' = Resume(other).ranks
    /\ queue' = Resume(other).queue
    /\ visited' = Resume(other).visited
    /\ current' = Resume(other).current
    /\ pending' = Resume(other).pending
    /\ enq_count' = Resume(other).enq_count
    /\ deq_count' = Resume(other).deq_count
    /\ enq_log' = Resume(other).enq_log
    /\ proposed' = Resume(other).proposed
    /\ calculated' = Resume(other).calculated
    /\ position' = Resume(other).position
    /\ rank_todo' = Resume(other).rank_todo
    /\ rows' = Resume(other).rows
    /\ max_y' = Resume(other).max_y
    /\ run' = Resume(other).run
    /\ first_run' = Resume(other).first_run
    /\ mermaid_syntax' = Resume(other).mermaid_syntax
    /\ UNCHANGED <<syntax_ok, flow, candidate, external_ok, synth_calls, synthesized, log,
                   returned, lookup, origin, wrapVars>>

ParNodeLists == NodeLists(ParMaxNodes, {LabelStart}, {"rectangle"}, {TRUE})

\* the inputs of the second call: a chain of three nodes, and two nodes of
\* different sizes without an edge
ParOtherInputs ==
    { <<[i \in 1..3 |-> [id |-> IdSeq[i], label |-> LabelCheckBr, shape |-> "diamond",
                         keys |-> TRUE]],
        <<[source |-> IdSeq[1], target |-> IdSeq[2]],
          [source |-> IdSeq[2], target |-> IdSeq[3]]>> >>,
      <<[i \in 1..2 |-> [id |-> IdSeq[i],
                         label |-> IF i = 1 THEN LabelCheck ELSE LabelStart,
                         shape |-> "rectangle", keys |-> TRUE]],
        <<>> >> }

ParInit ==
    /\ nodes \in ParNodeLists
    /\ edges \in EdgeLists(ParMaxEdges, ListedIds(nodes, <<>>))
    /\ other \in {StartContext(in[1], in[2]) : in \in ParOtherInputs}
    /\ AtLoopEntry

ParNext == LayoutNext \/ Switch

ParSpec == ParInit /\ [][ParNext]_vars

\* the edge list without the edges that name an id no node of the list has
WithoutDangling(ns, es) ==
    SelectSeq(es, LAMBDA e : e.source \in ListedIds(ns, es) /\ e.target \in ListedIds(ns, es))

FrameNodeLists == NodeLists(FrameMaxNodes, {LabelStart, LabelCheckBr}, {"rectangle"}, {TRUE})

\* a call on (nodes, edges) whose edges may name an absent id, and a second call
\* on the same nodes with those edges removed
FrameInit ==
    /\ nodes \in FrameNodeLists
    /\ edges \in EdgeLists(FrameMaxEdges, ListedIds(nodes, <<>>) \cup {DanglingId})
    /\ other = StartContext(nodes, WithoutDangling(nodes, edges))
    /\ AtLoopEntry

FrameSpec == FrameInit /\ [][ParNext]_vars

\* lines 58-68: the steps of the while loop
RankLoopNext ==
    \/ Dequeue
    \/ EnqueueSuccessor
    \/ RaiseVisitedSuccessor
    \/ QueueDrained

\* the interpreter runs the loop to its end: a step that can be taken is taken
LayoutFairSpec == LayoutSpec /\ WF_vars(RankLoopNext)

-----------------------------------------------------------------------------
(* wrap_text_with_br applied to a text and again to its own result *)

\* the pieces the argument texts are put together from: plain characters, a
\* space, the marker, and parts of the marker
WrapPieces == {<<"a">>, <<" ">>, Br, <<"<">>, <<"b", "r", "/", ">">>, <<"<", "b", "r">>, <<"/", ">">>}

WrapTexts == UNION { {Flatten(f) : f \in [1..k -> WrapPieces]} : k \in 0..WrapMaxPieces }

\* labels of 40 characters, as generate_mermaid_diagram hands them to the wrapper
\* (line 152): a sentence, and four words of 8 letters followed by one of 4
Label40Sentence ==
    <<"V", "a", "l", "i", "d", "a", "t", "e", " ", "c", "u", "s", "t", "o", "m", "e", "r", " ", "o", "r">> \o
    <<"d", "e", "r", " ", "t", "h", "e", "n", " ", "s", "h", "i", "p", " ", "i", "t", "e", "m", "s", ".">>
Label40Words ==
    Join(<<[i \in 1..8 |-> "a"], [i \in 1..8 |-> "b"], [i \in 1..8 |-> "c"],
           [i \in 1..8 |-> "d"], [i \in 1..4 |-> "e"]>>, <<" ">>)
WrapLabels == {Label40Sentence, Label40Words, LabelLong, LabelTwoLines}

WrapInit ==
    /\ \/ w_text \in WrapTexts /\ w_max_chars \in 1..WrapMaxChars
       \/ w_text \in WrapLabels /\ w_max_chars = MAX_CHARS_PER_LINE
    /\ once = <<>>
    /\ twice = <<>>
    /\ pc = "wrap"
    /\ nodes = <<>>
    /\ edges = <<>>
    /\ CrewIdle
    /\ LayoutIdle
    /\ PlaceIdle

\* wrap_text_with_br(text, max_chars)
WrapOnce ==
    /\ pc = "wrap"
    /\ once' = wrap_text_with_br(w_text, w_max_chars)
    /\ pc' = "rewrap"
    /\ UNCHANGED <<nodes, edges, w_text, w_max_chars, twice, crewVars, layoutVars, placeVars>>

\* wrap_text_with_br of the result, with the same limit
WrapAgain ==
    /\ pc = "rewrap"
    /\ twice' = wrap_text_with_br(once, w_max_chars)
    /\ pc' = "wrapped"
    /\ UNCHANGED <<nodes, edges, w_text, w_max_chars, once, crewVars, layoutVars, placeVars>>

WrapNext == WrapOnce \/ WrapAgain

WrapSpec == WrapInit /\ [][WrapNext]_vars

-----------------------------------------------------------------------------
(* Properties of the synthesizer and the validator (SynthSpec) *)

NodeShapeMarkers == {"[", "]", "{", "}"}
HasNodeShapeMarker(text) == \E i \in 1..Len(text) : text[i] \in NodeShapeMarkers
HasEdgeMarker(text) == Contains(text, <<"-", "-", ">">>)
TextProduced == pc \in {"check", "checked"}

\* C1: validator soundness: for every node list with at least one node and every
\* edge list, the validator accepts the text the synthesizer produced.
C1_ValidatorSoundness ==
    (pc = "checked" /\ Len(nodes) >= 1) => syntax_ok = "valid"

\* C2 as stated: for every input, the empty node list included, the produced text,
\* when non-empty, begins with the header keyword and contains at least one
\* node-shape marker or edge marker.
C2_HeaderAndMarkerAlways ==
    (TextProduced /\ mermaid_syntax # <<>>) =>
        /\ StartsWith(mermaid_syntax, Header)
        /\ HasNodeShapeMarker(mermaid_syntax) \/ HasEdgeMarker(mermaid_syntax)

\* C2 amended: the produced text is never empty and always begins with the header
\* keyword; it contains a node-shape marker or an edge marker whenever the input
\* has at least one node or one edge, and for the empty input it is the header
\* line alone.
C2_HeaderAndMarkerGivenNodeOrEdge ==
    TextProduced =>
        /\ mermaid_syntax # <<>>
        /\ StartsWith(mermaid_syntax, Header)
        /\ (Len(nodes) + Len(edges) >= 1) =>
               (HasNodeShapeMarker(mermaid_syntax) \/ HasEdgeMarker(mermaid_syntax))
        /\ (Len(nodes) + Len(edges) = 0) => mermaid_syntax = Header \o <<NL>>

\* C2 witness: text was produced for a lone diamond node with no edge
C2_DiamondTextProduced ==
    /\ pc = "checked"
    /\ Len(nodes) = 1
    /\ nodes[1].shape = "diamond"
    /\ edges = <<>>
    /\ HasNodeShapeMarker(mermaid_syntax)

-----------------------------------------------------------------------------
(* Properties of the validate/fallback controller (CrewSpec) *)

EmptyLookup == ~lookup.raised /\ lookup.results = <<>>

\* C3: the controller never raises, whatever the external candidate and the
\* (nodes, edges): every run stays on the path to its return statement, ends in
\* VALIDATED or INVALID_TERMINAL after at most one internal re-synthesis, and
\* returns a string.
C3_ControllerNeverRaises ==
    /\ ControllerState # "RAISED"
    /\ synth_calls <= 1
    /\ pc \in {"parse", "validate", "fallback", "revalidate", "return", "returned"}
    /\ (pc = "returned") =>
           /\ ControllerState \in {"VALIDATED", "INVALID_TERMINAL"}
           /\ returned \in Seq(STRING)
           /\ returned = mermaid_syntax

\* C3 witness: a run returned although the re-synthesis raised on an empty candidate
C3_ReturnedAfterSynthesisRaised ==
    /\ pc = "returned"
    /\ candidate = <<>>
    /\ synthesized.raised
    /\ ControllerState = "INVALID_TERMINAL"

\* C4: a candidate that passes the check is returned unchanged and the controller
\* never enters CANDIDATE_INTERNAL (the fallback never calls the synthesizer);
\* CANDIDATE_INTERNAL is entered only after the external candidate failed.
C4_ValidExternalReturnedAsIs ==
    /\ (external_ok = "valid") =>
           /\ synth_calls = 0
           /\ ControllerState \notin {"INVALID", "CANDIDATE_INTERNAL"}
           /\ mermaid_syntax = candidate
           /\ origin = "external"
           /\ (pc = "returned") => returned = candidate
    /\ (ControllerState = "CANDIDATE_INTERNAL" \/ synth_calls > 0) =>
           external_ok = "invalid"

\* C4 witness: a valid candidate with surrounding blank lines was returned
C4_ValidCandidateReturned ==
    /\ pc = "returned"
    /\ external_ok = "valid"
    /\ candidate = CandPadded
    /\ returned = CandPadded

\* C5 as stated: whenever the external candidate fails the check, the returned text
\* is the text synthesized from the same (nodes, edges), and the invalid external
\* candidate is never the returned value.
C5_InvalidExternalNeverReturned ==
    (pc = "returned" /\ external_ok = "invalid") =>
        /\ synth_calls = 1
        /\ ~synthesized.raised
        /\ returned = synthesized.text
        /\ origin = "internal"

\* C5 amended: whenever the external candidate fails the check, the synthesizer is
\* called once on the same (nodes, edges); when it returns, its text is returned
\* whether or not it passes the re-run check; when it raises (a node without id
\* or data.label), the error is logged and the invalid external candidate is
\* returned unchanged.
C5_SynthesizedReturnedUnlessRaised ==
    (pc = "returned" /\ external_ok = "invalid") =>
        /\ synth_calls = 1
        /\ synthesized = generate_mermaid_diagram(nodes, edges)
        /\ IF synthesized.raised
           THEN /\ returned = candidate
                /\ origin = "external"
                /\ log[Len(log)] = "ERROR Error in fallback Mermaid generation"
           ELSE /\ returned = synthesized.text
                /\ origin = "internal"

\* C5 witness: the synthesized text was returned although it failed the re-run check
C5_InvalidSynthesizedReturned ==
    /\ pc = "returned"
    /\ external_ok = "invalid"
    /\ ~synthesized.raised
    /\ syntax_ok = "invalid"
    /\ returned = synthesized.text
    /\ returned # candidate

\* C6: when the reference-syntax lookup returns an empty result (the candidate is
\* empty or the tool's ERROR string), the controller falls back to internal
\* synthesis and the returned text satisfies the validity check; stated for the
\* flows with at least one node, every node carrying id and data.label.
C6_EmptyLookupFallbackValid ==
    (/\ pc = "returned"
     /\ EmptyLookup
     /\ candidate \in {<<>>, mermaid_syntax_search_tool(lookup)}
     /\ Len(nodes) >= 1
     /\ \A i \in 1..Len(nodes) : nodes[i].keys) =>
        /\ synth_calls = 1
        /\ origin = "internal"
        /\ is_valid_mermaid_syntax(returned)

-----------------------------------------------------------------------------
(* Properties of the rank assignment (LayoutSpec, LayoutFairSpec) *)

\* the nodes that a path of edges reaches from the set S
RECURSIVE ReachedFrom(_, _)
ReachedFrom(S, es) ==
    LET N == S \cup {es[i].target : i \in {j \in 1..Len(es) : es[j].source \in S}}
    IN  IF N = S THEN S ELSE ReachedFrom(N, es)

ZeroInDegree == {n \in GNodeSet : G_in_degree(edges, n) = 0}
Unreached == GNodeSet \ ReachedFrom(ZeroInDegree, edges)

\* C7: every node of the graph has a defined non-negative integer rank, for every
\* edge set, cyclic ones included; every node never reached from a zero-in-degree
\* node has final rank 0.
C7_RankDefinedUnreachedZero ==
    /\ DOMAIN ranks = GNodeSet
    /\ \A n \in DOMAIN ranks : ranks[n] \in Nat
    /\ (pc = "ranked") => \A n \in Unreached \cap DOMAIN ranks : ranks[n] = 0

\* C7 witness: the ranking ended with a node on a cycle that no zero-in-degree
\* node reaches, next to a node of rank 1 or more
C7_CycleUnreachedRanked ==
    /\ pc = "ranked"
    /\ \E n \in Unreached : G_in_degree(edges, n) > 0 /\ ranks[n] = 0
    /\ \E m \in GNodeSet : ranks[m] >= 1

\* C8: rank monotonicity: a node v put on the queue from u is proposed the rank u
\* was dequeued at, plus one, and the final rank of v is at least that proposal.
C8_RankMonotone ==
    \A e \in enq_log :
        /\ e.proposal = e.from_rank + 1
        /\ deq_count[e.from] = 1
        /\ ranks[e.from] >= e.from_rank
        /\ (deq_count[e.to] = 1) => ranks[e.to] >= e.proposal
        /\ (pc = "ranked") => (deq_count[e.to] = 1 /\ ranks[e.to] >= e.proposal)

\* C8 witness: the ranking ended with a node whose final rank lies above the
\* rank it was proposed when it was put on the queue
C8_FinalRankAboveProposal ==
    /\ pc = "ranked"
    /\ \E e \in enq_log : ranks[e.to] > e.proposal

\* C9: the rank-assignment loop terminates on every finite graph, cycles and
\* self-loops included, and no node is enqueued or dequeued more than once.
C9_TerminatesEachNodeOnce ==
    /\ [](\A n \in GNodeSet : enq_count[n] <= 1 /\ deq_count[n] <= enq_count[n])
    /\ <>(pc = "ranked")

\* C9 witness: the loop ended on a graph with a two-node cycle entered from a
\* source, both nodes of the cycle having been enqueued and dequeued once
C9_EndedOnCyclicGraph ==
    /\ pc = "ranked"
    /\ \E i, j \in 1..Len(edges) :
           /\ edges[i].source # edges[i].target
           /\ edges[j].source = edges[i].target
           /\ edges[j].target = edges[i].source
           /\ deq_count[edges[i].source] = 1
           /\ deq_count[edges[i].target] = 1
           /\ enq_count[edges[i].source] = 1

-----------------------------------------------------------------------------
(* Properties of wrap_text_with_br (WrapSpec) *)

\* C10: wrap idempotence: wrapping the wrapped text again with the same limit
\* gives the wrapped text, for all texts, with or without markers, and limits > 0.
C10_WrapIdempotent ==
    (pc = "wrapped") => twice = once

\* C10 witness: a text with a marker and an over-long line was wrapped twice, the
\* first wrapping having changed it
C10_MarkedTextWrappedTwice ==
    /\ pc = "wrapped"
    /\ Contains(w_text, Br)
    /\ once # w_text
    /\ Len(SplitBr(once)) > Len(SplitBr(w_text))

\* the whitespace-delimited words of one line
WordsOfLine(line) ==
    LET starts == SelectSeq([i \in 1..Len(line) |-> i],
                            LAMBDA i : ~IsSpace(line[i]) /\ (i = 1 \/ IsSpace(line[i - 1])))
        EndOf(i) == Least({j \in i..Len(line) : j = Len(line) \/ IsSpace(line[j + 1])})
    IN  [k \in 1..Len(starts) |-> SubSeq(line, starts[k], EndOf(starts[k]))]

\* the words of a text, line by line, the markers separating lines
WordsOf(text) ==
    LET lines == SplitBr(text)
    IN  Flatten([i \in 1..Len(lines) |-> WordsOfLine(lines[i])])

WrapDone == pc \in {"rewrap", "wrapped"}

\* C11: wrapping never splits a whitespace-delimited word: the words of the
\* result are the words of the argument, so every inserted break falls between
\* two words, and a word longer than max_chars is a line of its own.
C11_BreaksBetweenWords ==
    WrapDone =>
        /\ WordsOf(once) = WordsOf(w_text)
        /\ \A k \in 1..Len(WordsOf(w_text)) :
               Len(WordsOf(w_text)[k]) > w_max_chars
                   => \E i \in 1..Len(SplitBr(once)) :
                          Strip(SplitBr(once)[i]) = WordsOf(w_text)[k]

\* C12: for a label without markers whose words are each at most max_chars long,
\* no line of the wrapped label exceeds max_chars characters, and a label of 40
\* characters wrapped at 15 gives exactly 3 segments.
C12_LinesWithinLimit ==
    (/\ WrapDone
     /\ ~Contains(w_text, Br)
     /\ \A k \in 1..Len(WordsOf(w_text)) : Len(WordsOf(w_text)[k]) <= w_max_chars)
        => /\ \A i \in 1..Len(SplitBr(once)) : Len(SplitBr(once)[i]) <= w_max_chars
           /\ (Len(w_text) = 40 /\ w_max_chars = 15) => Len(SplitBr(once)) = 3

\* C12 witness: a 40-character label of short words was wrapped at 15 into 3
\* segments, one of them ending inside a word
C12_FortyCharsThreeSegments ==
    /\ WrapDone
    /\ w_text = Label40Words
    /\ w_max_chars = 15
    /\ Len(SplitBr(once)) = 3
    /\ once # w_text

-----------------------------------------------------------------------------
(* Properties of the labels in the synthesized text (SynthSpec) *)

\* the label as it stands in the declaration line of node i of the produced
\* text, between the styling wrapper's opening and closing tags
EmbeddedLabel(i) ==
    LET line == Split(mermaid_syntax, <<NL>>)[i + 1]
        first == 1 + Len(Indent) + Len(nodes[i].id) + 2 + Len(DivOpen) + 1
        last == Len(line) - Len(DivClose) - 2
    IN  SubSeq(line, first, last)

\* the number of backslashes that stand directly before position j
BackslashRun(s, j) ==
    LET stops == {k \in 0..(j - 1) : k = 0 \/ s[k] # "\\"}
    IN  (j - 1) - Greatest(stops)

\* position j holds a bracket, brace or parenthesis that no backslash escapes
UnescapedBracket(s, j) ==
    /\ s[j] \in {"[", "]", "{", "}", "(", ")"}
    /\ BackslashRun(s, j) % 2 = 0

\* position j holds the '<' or the '>' of a line-break marker
InBreakMarker(s, j) ==
    \/ s[j] = "<" /\ j + 4 <= Len(s) /\ SubSeq(s, j, j + 4) = Br
    \/ s[j] = ">" /\ j >= 5 /\ SubSeq(s, j - 4, j) = Br

CountOf(s, c) == Cardinality({j \in 1..Len(s) : s[j] = c})

\* C13 as stated: for any label, raw newlines and over-long labels included, the
\* label embedded in the node declaration has no unescaped '[', ']', '{', '}',
\* '(', ')', '<' or '>'.
C13_NoUnescapedSpecial ==
    TextProduced =>
        \A i \in 1..Len(nodes) : \A j \in 1..Len(EmbeddedLabel(i)) :
            /\ ~UnescapedBracket(EmbeddedLabel(i), j)
            /\ EmbeddedLabel(i)[j] \notin {"<", ">"}

\* C13 amended: the embedded label has no unescaped '[', ']', '{', '}', '(' or
\* ')', and its only '<' and '>' are those of the line-break markers that stand
\* for the raw newlines of the label, one marker per newline.
C13_NoUnescapedExceptNewlineMarker ==
    TextProduced =>
        \A i \in 1..Len(nodes) :
            /\ \A j \in 1..Len(EmbeddedLabel(i)) :
                   /\ ~UnescapedBracket(EmbeddedLabel(i), j)
                   /\ EmbeddedLabel(i)[j] \in {"<", ">"} => InBreakMarker(EmbeddedLabel(i), j)
            /\ Len(Split(EmbeddedLabel(i), Br)) - 1 = CountOf(nodes[i].label, NL)

\* C13 witness: a text was produced for a label longer than the wrap limit that
\* has parentheses, brackets, a '<' and a raw newline
C13_LongLabelWithNewlineEscaped ==
    /\ TextProduced
    /\ \E i \in 1..Len(nodes) :
           /\ nodes[i].label = LabelLongAngle
           /\ Contains(EmbeddedLabel(i), Br)
           /\ Contains(EmbeddedLabel(i), <<"&", "l", "t", ";">>)
           /\ Contains(EmbeddedLabel(i), <<"\\", "(">>)

\* the lines of the produced text, as str.splitlines gives them
TextLines == SplitLines(mermaid_syntax)

\* the bracket that opens and the bracket that closes the declaration of a node
OpenBracket(node) == IF ShapeOf(node) = "diamond" THEN "{" ELSE "["
CloseBracket(node) == IF ShapeOf(node) = "diamond" THEN "}" ELSE "]"

\* line k of the text declares the node: its id, the opening bracket of its
\* shape, the quoted label, the closing bracket
DeclaresNode(line, node) ==
    /\ Contains(line, Indent \o node.id \o <<OpenBracket(node), "\"">> \o DivOpen)
    /\ Len(line) >= 2
    /\ SubSeq(line, Len(line) - 1, Len(line)) = <<"\"", CloseBracket(node)>>

-----------------------------------------------------------------------------
(* Properties of the positions (PlaceSpec) *)

Finished == pc = "done"

\* C14: determinism: a second run of layout_graph and generate_mermaid_diagram
\* on the same (nodes, edges), the nodes carrying the first run's annotations,
\* gives every node the same position and gives the same text, byte for byte.
C14_SecondRunIdentical ==
    (Finished /\ run = 2) =>
        /\ \A i \in 1..Len(nodes) : position[i] = first_run.position[i]
        /\ mermaid_syntax = first_run.text
        /\ max_y = first_run.max_y

\* C14 witness: a second run ended on three nodes, two of them of one rank and
\* of different widths
C14_RerunOnAnnotatedNodes ==
    /\ Finished /\ run = 2
    /\ Len(nodes) = 3
    /\ \E i, j \in 1..Len(nodes) :
           /\ i # j
           /\ ranks[nodes[i].id] = ranks[nodes[j].id]
           /\ position[i].width # position[j].width
           /\ position[i].x < position[j].x

LaidOut == pc \in {"laid_out", "done"}

\* the rank layout_graph gave node i, and the nodes of the list that share it
RankOfNode(i) == ranks[nodes[i].id]
RowMates(i) == {j \in 1..Len(nodes) : RankOfNode(j) = RankOfNode(i)}

\* node j is the next node after node i in its rank, in lexicographic order of id
NextInRow(i, j) ==
    /\ j \in RowMates(i)
    /\ LexLess(nodes[i].id, nodes[j].id)
    /\ ~\E m \in RowMates(i) :
           LexLess(nodes[i].id, nodes[m].id) /\ LexLess(nodes[m].id, nodes[j].id)

\* C16: all nodes of one rank have the same y, and they stand left to right in
\* lexicographic order of id: for consecutive nodes a, b of a rank,
\* b.x = a.x + a.width + 50, so that no two nodes of a rank overlap.
C16_RowOrderedBySpacing ==
    LaidOut =>
        \A i, j \in 1..Len(nodes) :
            /\ j \in RowMates(i) => position[j].y = position[i].y
            /\ NextInRow(i, j) =>
                   /\ position[j].x = position[i].x + position[i].width + Px(x_spacing)
                   /\ position[i].x + position[i].width <= position[j].x

\* C16 witness: three nodes were laid out in one rank, the node with id "10"
\* standing between the nodes "1" and "2"
C16_ThreeInOneRow ==
    /\ LaidOut
    /\ Len(nodes) = 3
    /\ RowMates(1) = {1, 2, 3}
    /\ position[1].x < position[3].x
    /\ position[3].x < position[2].x

\* the width of the row of node i: the widths of the nodes of its rank plus the
\* spacing between them
RowWidth(i) ==
    SeqSum([k \in 1..Len(nodes) |-> IF k \in RowMates(i) THEN position[k].width ELSE 0])
        + (Cardinality(RowMates(i)) - 1) * Px(x_spacing)

RowLeft(i) == Least({position[k].x : k \in RowMates(i)})
RowRight(i) == Greatest({position[k].x + position[k].width : k \in RowMates(i)})

\* C17: row centering: a row narrower than the canvas width 1200 starts at
\* (1200 - rowWidth) / 2, its left margin equal to its right margin; any other
\* row starts at x = 0; every x is >= 0.
C17_RowCentered ==
    LaidOut =>
        \A i \in 1..Len(nodes) :
            /\ position[i].x >= 0
            /\ RowWidth(i) < Px(DEFAULT_VIEWBOX_WIDTH) =>
                   /\ 2 * RowLeft(i) = Px(DEFAULT_VIEWBOX_WIDTH) - RowWidth(i)
                   /\ RowLeft(i) = Px(DEFAULT_VIEWBOX_WIDTH) - RowRight(i)
            /\ RowWidth(i) >= Px(DEFAULT_VIEWBOX_WIDTH) => RowLeft(i) = 0

\* an edge names an id that no node of the list has
NamesAbsentId ==
    \E k \in 1..Len(edges) :
        \/ edges[k].source \notin ListedIds(nodes, edges)
        \/ edges[k].target \notin ListedIds(nodes, edges)

\* C19: when an edge names an id that is absent from the node list, layout_graph
\* raises no error, makes no position for the absent id, and gives every node of
\* the list a position with positive width and height.
C19_AbsentIdSkipped ==
    NamesAbsentId =>
        /\ pc # "raised"
        /\ DOMAIN position = 1..Len(nodes)
        /\ LaidOut => \A i \in 1..Len(nodes) :
               /\ position[i].set
               /\ position[i].width > 0
               /\ position[i].height > 0

\* C19 witness: a layout ended in which the absent id shared a row with two
\* nodes of the list
C19_AbsentIdInRow ==
    /\ LaidOut
    /\ NamesAbsentId
    /\ \E row \in rows :
           /\ DanglingId \in Range(row.ids)
           /\ Cardinality(Range(row.ids) \cap ListedIds(nodes, edges)) >= 2
    /\ \A i \in 1..Len(nodes) : position[i].set

\* the largest height among the nodes of the rank of node i
MaxHeightInRank(i) == Greatest({position[k].height : k \in RowMates(i)})

\* C20 as stated: the y of every node of rank r is r x (maxNodeHeightInRank + 100);
\* every node of rank 0 has y = 0.
C20_YIsRankTimesBand ==
    LaidOut =>
        \A i \in 1..Len(nodes) :
            position[i].y = RankOfNode(i) * (MaxHeightInRank(i) + Px(y_spacing))

\* C20 amended: the y of every node of rank r is
\* r x (maxNodeHeightInRank + 100) + 5; every node of rank 0 has y = 5.
C20_YIsRankTimesBandPlusOffset ==
    LaidOut =>
        \A i \in 1..Len(nodes) :
            /\ position[i].y = RankOfNode(i) * (MaxHeightInRank(i) + Px(y_spacing)) + Px(5)
            /\ RankOfNode(i) = 0 => position[i].y = Px(5)

\* C20 witness: a layout has a rank above 0 with two nodes of different heights
C20_TallAndShortBelowTop ==
    /\ LaidOut
    /\ \E i, j \in 1..Len(nodes) :
           /\ RankOfNode(i) >= 1
           /\ j \in RowMates(i)
           /\ position[j].height > position[i].height
           /\ position[i].y = position[j].y

-----------------------------------------------------------------------------
(* Properties of two calls running at the same time (ParSpec) *)

\* the call with these locals has ended its second run with the result of its
\* first run, which it made alone
SameAsAlone(ctx) ==
    (ctx.pc = "done" /\ ctx.run = 2) =>
        /\ ctx.position = ctx.first_run.position
        /\ ctx.max_y = ctx.first_run.max_y
        /\ ctx.mermaid_syntax = ctx.first_run.text

\* C18: two calls running in parallel on their own (nodes, edges), their steps
\* interleaved in any way, each produce the result they produce when run alone.
C18_ParallelCallsAsAlone ==
    /\ SameAsAlone(CallContext)
    /\ other.pc # "none" => SameAsAlone(other)

\* C18 witness: one call has ended its second run on a graph with an edge while
\* the other call, stopped in the middle of its rank loop after taking a node
\* off its queue, has still to end its own
C18_EndedWhileOtherInLoop ==
    /\ Finished /\ run = 2
    /\ Len(edges) >= 1
    /\ other.pc = "successors"
    /\ other.run = 2
    /\ \E n \in DOMAIN other.deq_count : other.deq_count[n] = 1

-----------------------------------------------------------------------------
(* Properties of the rank assignment as a whole (LayoutSpec, OrderSpec) *)

\* a step taken inside the loop at lines 58-68 lowers no stored rank
RankLoopStepKeepsRanks ==
    pc \in {"loop", "successors"} =>
        \A n \in DOMAIN ranks : n \in DOMAIN ranks' /\ ranks'[n] >= ranks[n]

\* C21: during rank assignment the stored rank of a node never decreases: in
\* every step of the loop at lines 58-68 ranks'[n] >= ranks[n] for every node n,
\* and the final rank of a node is the maximum of the rank proposals it received
\* (the initial 0 and every value merged into it at lines 60 and 68).
C21_RankNeverDecreases ==
    /\ [][RankLoopStepKeepsRanks]_vars
    /\ [](pc = "ranked" => \A n \in DOMAIN ranks : ranks[n] = Greatest(proposed[n] \cup {0}))

\* C21 witness: the ranking ended with a node that received the proposal 2 from
\* a visited-successor merge and the smaller proposal 1 it was put on the queue
\* with, and kept 2
C21_SmallerProposalAfterLarger ==
    /\ pc = "ranked"
    /\ \E e \in enq_log :
           /\ e.proposal = 1
           /\ proposed[e.to] = {1, 2}
           /\ ranks[e.to] = 2

\* no node of the graph lies on a cycle
Acyclic ==
    \A n \in GNodeSet :
        n \notin ReachedFrom({edges[i].target : i \in {j \in 1..Len(edges) : edges[j].source = n}},
                             edges)

\* the predecessors of n in G
Predecessors(n) == {edges[i].source : i \in {j \in 1..Len(edges) : edges[j].target = n}}

\* C22: the ranking is a layering by predecessors: on an acyclic graph a node
\* with no predecessors has final rank 0, and every other node reachable from a
\* source has as final rank the maximum of the final ranks of its predecessors,
\* plus 1.
C22_RankIsMaxPredecessorPlusOne ==
    (pc = "ranked" /\ Acyclic) =>
        \A n \in GNodeSet :
            IF Predecessors(n) = {}
            THEN ranks[n] = 0
            ELSE n \in ReachedFrom(ZeroInDegree, edges) =>
                     ranks[n] = Greatest({ranks[p] : p \in Predecessors(n)}) + 1

\* the nodes within k edges of a node without incoming edges
RECURSIVE WithinSteps(_)
WithinSteps(k) ==
    IF k = 0 THEN ZeroInDegree
    ELSE LET S == WithinSteps(k - 1)
         IN  S \cup {edges[i].target : i \in {j \in 1..Len(edges) : edges[j].source \in S}}

\* the breadth-first distance of a reached node from the nearest source
SourceDistance(n) == Least({k \in 0..Cardinality(GNodeSet) : n \in WithinSteps(k)})

\* the rank as a function of the graph alone
RankOfGraph(n) ==
    IF n \in ZeroInDegree \cup Unreached THEN 0
    ELSE 1 + Greatest({SourceDistance(p) : p \in Predecessors(n) \ Unreached})

C26_EdgesPointDownward ==
    (pc = "ranked" /\ Acyclic /\ ~NamesAbsentId) =>
        \A k \in 1..Len(edges) : ranks[edges[k].target] >= ranks[edges[k].source] + 1

-----------------------------------------------------------------------------
(* Properties of the node declarations and of the validator's rejections *)

\* the declaration line of node i in the produced text
DeclarationLine(i) == Split(mermaid_syntax, <<NL>>)[i + 1]

\* the line is id, opening bracket, quote, ..., quote, closing bracket
IsDeclaration(line, id, open, close) ==
    LET at == 1 + Len(Indent) + Len(id)
    IN  /\ Len(line) >= at + 4
        /\ SubSeq(line, 2, at) = Indent \o id
        /\ SubSeq(line, at + 1, at + 2) = <<open, "\"">>
        /\ SubSeq(line, Len(line) - 1, Len(line)) = <<"\"", close>>

\* C23: generate_mermaid_diagram emits the diamond declaration id{"..."} exactly
\* for the nodes whose shape is 'diamond', and the rectangle declaration
\* id["..."] for every other node, the nodes with no shape field and the nodes
\* with an unknown shape value included.
C23_DiamondExactlyForDiamond ==
    TextProduced =>
        \A i \in 1..Len(nodes) :
            /\ nodes[i].shape = "diamond" <=>
                   IsDeclaration(DeclarationLine(i), nodes[i].id, "{", "}")
            /\ nodes[i].shape # "diamond" <=>
                   IsDeclaration(DeclarationLine(i), nodes[i].id, "[", "]")

\* C23 witness: a text was produced for a diamond whose label has brackets and
\* braces of its own, followed by a node of the unknown shape 'circle'
C23_DiamondThenCircle ==
    /\ TextProduced
    /\ Len(nodes) = 2
    /\ nodes[1].shape = "diamond" /\ nodes[1].label = LabelSpecials
    /\ nodes[2].shape = "circle"
    /\ IsDeclaration(DeclarationLine(1), nodes[1].id, "{", "}")
    /\ IsDeclaration(DeclarationLine(2), nodes[2].id, "[", "]")

\* the lines of a text, and the index of its first line that is not blank
RawLines(text) == SplitLines(text)
NonBlank(text) == {i \in 1..Len(RawLines(text)) : Strip(RawLines(text)[i]) # <<>>}

\* a line has a bracket or brace of a node declaration, or the dashes of a connector
HasMarker(line) == HasNodeShapeMarker(line) \/ Contains(line, <<"-", "-">>)

\* the texts C24 lists: empty (or missing), whitespace only, a first non-blank
\* line that does not start with the header (indentation aside), or no line
\* after the header line that has a marker
MustBeRejected(text) ==
    \/ text = <<>>
    \/ \A i \in 1..Len(text) : IsSpace(text[i])
    \/ /\ NonBlank(text) # {}
       /\ LET h == Least(NonBlank(text))
          IN  \/ ~StartsWith(Strip(RawLines(text)[h]), Header)
              \/ \A i \in (h + 1)..Len(RawLines(text)) : ~HasMarker(RawLines(text)[i])

\* C24: is_valid_mermaid_syntax returns false for an empty or missing string, a
\* whitespace-only string, any text whose first non-blank line does not start
\* with 'graph TD', and any text that has the header but no later line with a
\* node-shape or edge marker, such as the header-only text synthesized for empty
\* nodes and edges.
C24_ValidatorRejects ==
    /\ (external_ok # "unchecked" /\ MustBeRejected(candidate)) => external_ok = "invalid"
    /\ (syntax_ok # "unchecked" /\ MustBeRejected(mermaid_syntax)) => syntax_ok = "invalid"

\* C24 witness: a whitespace-only external text was rejected, and so was the
\* header-only text synthesized in its place for empty nodes and edges
C24_BlankThenHeaderOnlyRejected ==
    /\ pc = "returned"
    /\ candidate = CandBlank /\ external_ok = "invalid"
    /\ nodes = <<>> /\ edges = <<>>
    /\ mermaid_syntax = HeaderLine /\ syntax_ok = "invalid"

-----------------------------------------------------------------------------
(* Properties of the characters and markers of a wrapped text (WrapSpec) *)

\* x.replace('<br/>', ''): the text without its markers
DeleteBr(x) == Flatten(SplitBr(x))

\* for each marker of x, the number of label characters that stand before it
LineEnds(x) ==
    [j \in 1..(Len(SplitBr(x)) - 1) |-> Len(Flatten(SubSeq(SplitBr(x), 1, j)))]

\* how many markers of x stand after exactly o label characters
BreaksAt(x, o) == Cardinality({j \in 1..Len(LineEnds(x)) : LineEnds(x)[j] = o})

\* C28: wrap_text_with_br loses and adds no label characters: for every string s
\* and every k > 0, deleting the '<br/>' markers of wrap_text_with_br(s, k) gives
\* the character sequence that deleting the markers of s gives, and every marker
\* of s is still a line break of the result, at the same place in that sequence.
C28_WrapKeepsCharactersAndBreaks ==
    WrapDone =>
        /\ DeleteBr(once) = DeleteBr(w_text)
        /\ \A o \in 0..Len(w_text) : BreaksAt(once, o) >= BreaksAt(w_text, o)

\* C28 witness: a text with an over-long line and two markers in a row was
\* wrapped: the result has more breaks, the same characters and both markers
C28_LongLineAndEmptyLineWrapped ==
    /\ WrapDone
    /\ Contains(w_text, Br \o Br)
    /\ Len(DeleteBr(w_text)) > w_max_chars
    /\ Len(SplitBr(once)) > Len(SplitBr(w_text))
    /\ \E o \in 1..Len(w_text) : BreaksAt(w_text, o) = 2 /\ BreaksAt(once, o) >= 2

-----------------------------------------------------------------------------
(* Properties of the markers in the synthesized text (SynthSpec) *)

\* the number of '<br/>' markers in a text
MarkersIn(x) == Len(Split(x, Br)) - 1

\* C29: line-break markers survive rendering: each '<br/>' that wrapping inserted
\* or that the label already had stands verbatim in the node declaration, next
\* to the markers that stand for the label's raw newlines; the escaping steps
\* applied after wrapping do not alter the markers.
C29_MarkersSurviveRendering ==
    TextProduced =>
        \A i \in 1..Len(nodes) :
            MarkersIn(EmbeddedLabel(i))
                = MarkersIn(wrap_text_with_br(nodes[i].label, MAX_CHARS_PER_LINE))
                      + CountOf(nodes[i].label, NL)

-----------------------------------------------------------------------------
(* Properties of the vertical bands and of dangling edges (PlaceSpec, FrameSpec) *)

\* C27: after layout_graph the vertical bands of different ranks are ordered and
\* disjoint: for any nodes a, b with rank(a) < rank(b), b.y >= a.y + a.height,
\* whatever the heights (line counts) of the nodes in the ranks.
C27_BandsDisjoint ==
    LaidOut =>
        \A a, b \in 1..Len(nodes) :
            RankOfNode(a) < RankOfNode(b) =>
                position[b].y >= position[a].y + position[a].height

\* both calls have returned
BothReturned == pc = "done" /\ other.pc = "done"

\* C30: a dangling edge has no effect on the layout of the listed nodes: the rank
\* and the position (x, y) that layout_graph gives each node of the list are
\* those it gives when every edge with an endpoint absent from the node list is
\* removed from the edge list.
C30_DanglingEdgeNoEffect ==
    BothReturned =>
        \A i \in 1..Len(nodes) :
            /\ ranks[nodes[i].id] = other.ranks[nodes[i].id]
            /\ position[i].x = other.position[i].x
            /\ position[i].y = other.position[i].y

====
